---- MODULE Spec2Model ----
(***************************************************************************)
(* Model of satosa.backends.saml2.SamlBackend: the SP-side SAML2 backend   *)
(* (start_auth, disco_query, authn_request, authn_response,                *)
(* disco_response) together with the relay-state token it keeps in the     *)
(* session state.                                                          *)
(*                                                                         *)
(* Python values: a str is a sequence of code points (naturals), bytes is  *)
(* a sequence of naturals below 256, None is the value None below.         *)
(***************************************************************************)
EXTENDS Integers, Sequences, FiniteSets, TLC

\* ---------------------------------------------------------------- bounds
\* length of the relay-state tokens rndstr() draws
TokenLen == 1
\* longest entity id (in code points) a request can name
MaxIdLen == 1

\* ------------------------------------------------------- Python values
\* None: distinct from every str (a str holds code points >= 0)
None == <<-1>>

\* the key is absent from a mapping (the lookup raises KeyError)
Absent == <<-2>>

\* all sequences over S of length lo..hi
RECURSIVE SeqsOfLen(_, _)
SeqsOfLen(S, n) ==
    IF n = 0 THEN {<<>>}
    ELSE {Append(s, c) : s \in SeqsOfLen(S, n - 1), c \in S}

SeqsUpTo(S, lo, hi) == UNION {SeqsOfLen(S, n) : n \in lo..hi}

\* ------------------------------------------------ str.encode("utf-8")
Utf8OfCodePoint(cp) ==
    IF cp < 128 THEN <<cp>>
    ELSE IF cp < 2048 THEN <<192 + (cp \div 64), 128 + (cp % 64)>>
    ELSE <<224 + (cp \div 4096), 128 + ((cp \div 64) % 64), 128 + (cp % 64)>>

RECURSIVE Utf8Encode(_)
Utf8Encode(s) ==
    IF s = <<>> THEN <<>>
    ELSE Utf8OfCodePoint(Head(s)) \o Utf8Encode(Tail(s))

\* ----------------------------------------------- bytes.decode("utf-8")
\* the result is the str, or DecodeError when the bytes are not valid UTF-8
DecodeError == <<-3>>

IsCont(b) == b >= 128 /\ b < 192

RECURSIVE Utf8DecodeFrom(_, _)
Utf8DecodeFrom(b, acc) ==
    IF b = <<>> THEN acc
    ELSE LET b0 == b[1] IN
         IF b0 < 128 THEN Utf8DecodeFrom(Tail(b), Append(acc, b0))
         ELSE IF b0 >= 194 /\ b0 < 224 THEN
              IF Len(b) >= 2 /\ IsCont(b[2])
              THEN Utf8DecodeFrom(SubSeq(b, 3, Len(b)),
                                  Append(acc, (b0 - 192) * 64 + (b[2] - 128)))
              ELSE DecodeError
         ELSE IF b0 >= 224 /\ b0 < 240 THEN
              IF /\ Len(b) >= 3 /\ IsCont(b[2]) /\ IsCont(b[3])
                 /\ (b0 = 224 => b[2] >= 160)
                 /\ (b0 = 237 => b[2] < 160)
              THEN Utf8DecodeFrom(SubSeq(b, 4, Len(b)),
                                  Append(acc, (b0 - 224) * 4096 + (b[2] - 128) * 64
                                              + (b[3] - 128)))
              ELSE DecodeError
         ELSE DecodeError

Utf8Decode(b) == Utf8DecodeFrom(b, <<>>)

\* ------------------------------------------------- urlsafe_b64encode
\* code point of the i-th character of the URL-safe base64 alphabet
B64Char(i) ==
    IF i < 26 THEN 65 + i
    ELSE IF i < 52 THEN 97 + (i - 26)
    ELSE IF i < 62 THEN 48 + (i - 52)
    ELSE IF i = 62 THEN 45
    ELSE 95

PadChar == 61

RECURSIVE urlsafe_b64encode(_)
urlsafe_b64encode(b) ==
    IF b = <<>> THEN <<>>
    ELSE IF Len(b) = 1 THEN
        <<B64Char(b[1] \div 4), B64Char((b[1] % 4) * 16), PadChar, PadChar>>
    ELSE IF Len(b) = 2 THEN
        <<B64Char(b[1] \div 4),
          B64Char((b[1] % 4) * 16 + (b[2] \div 16)),
          B64Char((b[2] % 16) * 4), PadChar>>
    ELSE
        <<B64Char(b[1] \div 4),
          B64Char((b[1] % 4) * 16 + (b[2] \div 16)),
          B64Char((b[2] % 16) * 4 + (b[3] \div 64)),
          B64Char(b[3] % 64)>> \o urlsafe_b64encode(SubSeq(b, 4, Len(b)))

\* ------------------------------------------------- urlsafe_b64decode
\* value of a character in the decoding table, 64 for a character outside
\* the alphabet ('-' and '_' are translated to '+' and '/', which stay valid)
B64Value(c) ==
    IF c >= 65 /\ c <= 90 THEN c - 65
    ELSE IF c >= 97 /\ c <= 122 THEN 26 + (c - 97)
    ELSE IF c >= 48 /\ c <= 57 THEN 52 + (c - 48)
    ELSE IF c = 45 \/ c = 43 THEN 62
    ELSE IF c = 95 \/ c = 47 THEN 63
    ELSE 64

\* the non-strict decoder: characters outside the alphabet are skipped, a
\* complete pad sequence ends the input, and a quad left open at the end is
\* an error (binascii.Error)
RECURSIVE B64DecodeFrom(_, _, _, _, _)
B64DecodeFrom(s, quad_pos, leftchar, pads, out) ==
    IF s = <<>> THEN (IF quad_pos # 0 THEN DecodeError ELSE out)
    ELSE LET c == Head(s) IN
         IF c = PadChar THEN
             IF quad_pos >= 2 /\ quad_pos + pads + 1 >= 4 THEN out
             ELSE B64DecodeFrom(Tail(s), quad_pos, leftchar,
                                IF quad_pos >= 2 THEN pads + 1 ELSE pads, out)
         ELSE LET v == B64Value(c) IN
              IF v >= 64 THEN B64DecodeFrom(Tail(s), quad_pos, leftchar, pads, out)
              ELSE IF quad_pos = 0 THEN B64DecodeFrom(Tail(s), 1, v, 0, out)
              ELSE IF quad_pos = 1 THEN
                  B64DecodeFrom(Tail(s), 2, v % 16, 0,
                                Append(out, leftchar * 4 + (v \div 16)))
              ELSE IF quad_pos = 2 THEN
                  B64DecodeFrom(Tail(s), 3, v % 4, 0,
                                Append(out, leftchar * 16 + (v \div 4)))
              ELSE B64DecodeFrom(Tail(s), 0, 0, 0, Append(out, leftchar * 64 + v))

urlsafe_b64decode(s) == B64DecodeFrom(s, 0, 0, 0, <<>>)

\* ------------------------------------------------------- configuration
\* self.name, the key of this adapter in the session state
NAME == "Saml2"

BINDING_HTTP_REDIRECT == "urn:oasis:names:tc:SAML:2.0:bindings:HTTP-Redirect"
BINDING_HTTP_POST == "urn:oasis:names:tc:SAML:2.0:bindings:HTTP-POST"

\* self.bindings, in the order pick_binding tries them
bindings_postfirst == <<BINDING_HTTP_POST, BINDING_HTTP_REDIRECT>>

bindings == <<BINDING_HTTP_REDIRECT, BINDING_HTTP_POST>>

\* self.sp.config.entityid
SP_ENTITYID == <<115, 112>>

\* code points entity ids are written with: 'i' (one byte in UTF-8) and
\* e-acute (two bytes)
IdChars == {105, 233}

\* the entity ids a request can name
EntityIds == SeqsUpTo(IdChars, 1, MaxIdLen)

\* the entity ids the federation metadata can list as IdPs
IdpUniverse == {<<105>>, <<233>>}

Range(q) == {q[i] : i \in 1..Len(q)}

\* sequences over S without repetition
DistinctSeqs(S) ==
    {q \in SeqsUpTo(S, 0, Cardinality(S)) :
        \A i, j \in 1..Len(q) : i # j => q[i] # q[j]}

\* an endpoint URL of this SP with the given path (a str)
Url(path) == [base |-> "https://sp.example", path |-> path]

\* urlparse(endp).path
UrlPath(url) == url.path

\* "^%s$" % urlparse(endp).path[1:]
PathPattern(url) ==
    <<94>> \o SubSeq(UrlPath(url), 2, Len(UrlPath(url))) \o <<36>>

BINDING_DISCO == "urn:oasis:names:tc:SAML:profiles:SSO:idp-discovery-protocol"

\* the (endpoint, binding) pairs an endpoint list of the SP can hold; the
\* paths are "/a", "/b", "/d" and "/e"
AcsEndpoints == {<<Url(<<47, 97>>), BINDING_HTTP_POST>>}

AcsUniverse == AcsEndpoints \cup {<<Url(<<47, 98>>), BINDING_HTTP_REDIRECT>>}

DiscoEndpoints == {<<Url(<<47, 100>>), BINDING_DISCO>>}

\* self.config["publish_metadata"] as a list: empty without that key; the
\* paths are "/m" and the empty path
PublishMetadataValues == {<<>>, <<Url(<<47, 109>>)>>, <<Url(<<>>)>>}

\* the discovery-response endpoints a configuration can list
DiscoUniverse == DiscoEndpoints \cup {<<Url(<<47, 101>>), BINDING_DISCO>>}

DISCO_SRV == "https://disco.example/ds"

\* config.get("disco_srv") when the configuration names no discovery service
NoDiscoSrv == ""

\* characters of a relay-state token: rndstr() draws letters of both cases
TokenChars == {97, 65}

\* the values rndstr() can return
Tokens == SeqsOfLen(TokenChars, TokenLen)

\* ---------------------------------------------------------------- state
VARIABLES
    idps,                \* self.sp.metadata.identity_providers()
    sso_services,        \* per entity id, the bindings of its SSO endpoints
    acs,                 \* endpoints.sp["assertion_consumer_service"]
    discovery_response,  \* endpoints.sp["discovery_response"]
    discosrv,            \* self.discosrv
    state,               \* context.state, the session state (a dict)
    issued,              \* the token the last state.add wrote, None before
    overwritten,         \* the value that state.add replaced, None if none
    cb_count,            \* callbacks run on an echo of `issued` since then
    call,                \* what the last handler call got, did and returned
    metadata,            \* self.sp.metadata.metadata, the metadata sources
    metadata_desc,       \* what the last get_metadata_desc returned or raised
    publish_metadata,    \* self.config["publish_metadata"], if configured
    url_map              \* what the last register_endpoints returned

vars == <<idps, sso_services, acs, discovery_response, discosrv, state,
          issued, overwritten, cb_count, call, metadata, metadata_desc,
          publish_metadata, url_map>>

config == <<idps, sso_services, acs, discovery_response, discosrv, metadata,
            publish_metadata>>

\* lower-case form of a str
Lower(v) == [i \in 1..Len(v) |-> IF v[i] >= 65 /\ v[i] <= 90 THEN v[i] + 32 ELSE v[i]]

\* ------------------------------------------------------- satosa State
EmptyState == [k \in {} |-> None]

\* state.add(key, data)
StateAdd(st, key, data) ==
    [k \in DOMAIN st \cup {key} |-> IF k = key THEN data ELSE st[k]]

\* state.get(key): the stored value, None when there is none
StateGet(st, key) == IF key \in DOMAIN st THEN st[key] ELSE None

\* state.remove(key)
StateRemove(st, key) == [k \in DOMAIN st \ {key} |-> st[k]]

\* ------------------------------------------------------------- results
NoLoc == [url |-> "", query |-> <<>>]

\* an exception leaving the handler
Raise(exc, msg) ==
    [kind |-> "raise", exc |-> exc, msg |-> msg, loc |-> NoLoc, body |-> <<>>]

\* raise SATOSAAuthenticationError(state, msg)
AuthError(msg) == Raise("SATOSAAuthenticationError", msg)

SeeOther(loc) ==
    [kind |-> "SeeOther", exc |-> "", msg |-> "", loc |-> loc, body |-> <<>>]

Response(data, headers) ==
    [kind |-> "Response", exc |-> "", msg |-> "", loc |-> NoLoc,
     body |-> <<data, headers>>]

\* no call, no result
NoResult ==
    [kind |-> "none", exc |-> "", msg |-> "", loc |-> NoLoc, body |-> <<>>]

IsRaise(r, exc) == r.kind = "raise" /\ r.exc = exc

IsAuthError(r, msg) == IsRaise(r, "SATOSAAuthenticationError") /\ r.msg = msg

\* ------------------------------------------------ pysaml2 capabilities
\* self.sp.pick_binding("single_sign_on_service", self.bindings, "idpsso",
\* entity_id): the first binding of the list the entity advertises an SSO
\* endpoint for, with that endpoint as destination; NoBinding when it raises
NoBinding == [binding |-> "", destination |-> NoLoc]

Destination(entity_id, b) == [url |-> b, query |-> entity_id]

RECURSIVE PickFrom(_, _, _)
PickFrom(bs, advertised, entity_id) ==
    IF bs = <<>> THEN NoBinding
    ELSE IF Head(bs) \in advertised
         THEN [binding |-> Head(bs), destination |-> Destination(entity_id, Head(bs))]
         ELSE PickFrom(Tail(bs), advertised, entity_id)

pick_binding(bs, entity_id) ==
    IF entity_id \in DOMAIN sso_services
    THEN PickFrom(bs, sso_services[entity_id], entity_id)
    ELSE NoBinding

\* what self.sp.apply_binding hands back when it does not raise: a mapping
\* whose "headers" and "data" entries the caller reads afterwards
HtShapes == {"complete", "no_location", "no_headers", "no_data"}

\* ht_args: a mapping (function) that has
\* the keys "headers" and "data" unless the shape leaves one out
apply_binding(binding, req, destination, relay_state, shape) ==
    LET msg == [url |-> destination.url,
                query |-> <<destination.query, req, relay_state>>]
        hdrs == IF binding = BINDING_HTTP_REDIRECT /\ shape # "no_location"
                THEN <<[param |-> "Location", value |-> msg]>>
                ELSE <<[param |-> "Content-type", value |-> NoLoc]>>
        data == IF binding = BINDING_HTTP_REDIRECT THEN <<>> ELSE <<msg>>
        keys == {"headers", "data"}
                    \ ((IF shape = "no_headers" THEN {"headers"} ELSE {})
                       \cup (IF shape = "no_data" THEN {"data"} ELSE {}))
    IN  [k \in keys |-> IF k = "headers" THEN hdrs ELSE data]

\* what the environment of one authn_request call decides: the first call
\* that raises (fail: the NameID policy, create_authn_request or
\* apply_binding; "none" when none does), what rndstr() returns and what
\* apply_binding hands back; a call that is not reached decides nothing
ExtFails == {"none", "name_id_policy", "create_authn_request", "apply_binding"}

ExtInputs ==
    {x \in [fail : ExtFails, relay_state : Tokens, shape : HtShapes] :
        /\ x.fail # "none" => x.shape = "complete"
        /\ (x.fail # "none" \/ x.shape # "complete")
              => x.relay_state = CHOOSE t \in Tokens : TRUE}

\* ------------------------------------------------------- authn_request
\* the result of authn_request on session state st: the state it leaves,
\* what it returns or raises, and the relay_state it passed to apply_binding
\* (None when it did not get that far)
AuthnOut(st, result, relay) == [state |-> st, result |-> result, relay |-> relay]

\* the except clause of lines 151-153, reached before line 156
ConstructFailure_stored(st) ==
    AuthnOut(StateAdd(st, NAME, CHOOSE t \in Tokens : TRUE),
             AuthError("Failed to construct the AuthnRequest"), None)

ConstructFailure(st) ==
    AuthnOut(st, AuthError("Failed to construct the AuthnRequest"), None)

\* lines 158-169: the response built from ht_args, after state.add
AuthnReply(st, _binding, ht_args, relay_state) ==
    IF _binding = BINDING_HTTP_REDIRECT THEN
        IF "headers" \notin DOMAIN ht_args
        THEN AuthnOut(st, Raise("KeyError", "headers"), relay_state)
        ELSE LET locs == {i \in 1..Len(ht_args.headers) :
                              ht_args.headers[i].param = "Location"}
             IN  IF locs # {}
                 THEN LET first == CHOOSE i \in locs : \A j \in locs : i <= j
                      IN  AuthnOut(st, SeeOther(ht_args.headers[first].value),
                                   relay_state)
                 ELSE AuthnOut(st, AuthError("Parameter error"), relay_state)
    ELSE IF "data" \notin DOMAIN ht_args
         THEN AuthnOut(st, Raise("KeyError", "data"), relay_state)
    ELSE IF "headers" \notin DOMAIN ht_args
         THEN AuthnOut(st, Raise("KeyError", "headers"), relay_state)
    ELSE AuthnOut(st, Response(ht_args.data, ht_args.headers), relay_state)

\* line 156, state.add(self.name, relay_state): the token takes the place of
\* whatever was stored under the adapter's name
IssueToken_lowered(st, relay_state) == StateAdd(st, NAME, Lower(relay_state))

IssueToken_keepfirst(st, relay_state) ==
    IF NAME \in DOMAIN st THEN st ELSE StateAdd(st, NAME, relay_state)

IssueToken(st, relay_state) == StateAdd(st, NAME, relay_state)

authn_request(st, entity_id, ext) ==
    IF ext.fail = "name_id_policy"
    THEN AuthnOut(st, Raise("Exception", "name_id_policy"), None)
    ELSE LET picked == pick_binding(bindings, entity_id) IN
         IF picked.binding = "" THEN ConstructFailure(st)
         ELSE IF acs = <<>> THEN ConstructFailure(st)
         ELSE IF ext.fail = "create_authn_request" THEN ConstructFailure(st)
         ELSE IF ext.fail = "apply_binding" THEN ConstructFailure(st)
         ELSE LET return_binding == acs[1][2]
                  req == <<picked.destination.url, return_binding, "persistent">>
                  relay_state == ext.relay_state
                  ht_args == apply_binding(picked.binding, req, picked.destination,
                                           relay_state, ext.shape)
              IN  AuthnReply(IssueToken(st, relay_state), picked.binding,
                             ht_args, relay_state)

\* ------------------------------------------------- the protocol response
\* SAMLResponse payloads of a request: the empty string, one the protocol
\* layer rejects, one it accepts, and one it accepts that carries no
\* authentication statement, and one it accepts that names no subject
EmptyStr == <<>>
PayloadGarbage == <<103>>
PayloadFull == <<82>>
PayloadNoAuthn == <<78>>
PayloadNoSubject == <<83>>

Payloads ==
    {EmptyStr, PayloadGarbage, PayloadFull, PayloadNoAuthn, PayloadNoSubject}

\* response.ava: the attributes under their names on the wire
Ava == <<[name |-> "urn:oid:0.9.2342.19200300.100.1.3", values |-> <<<<109>>>>]>>

\* self.sp.parse_authn_request_response(payload, binding): the parsed
\* response, ParseError when it raises
ParseError == [ok |-> FALSE, authn_statement |-> <<>>, issuer |-> <<>>,
               subject |-> <<>>, ava |-> <<>>]

\* the response of an IdP with one authentication statement, an issuer, a
\* subject and attributes
FullResponse ==
    [ok |-> TRUE,
     authn_statement |-> <<[authn_instant |-> "2015-01-01T00:00:00Z",
                            class_ref |-> "urn:PasswordProtectedTransport"]>>,
     issuer |-> <<105>>, subject |-> <<117>>, ava |-> Ava]

\* subject is response.get_subject(), None when the response names none
parse_authn_request_response(payload, binding) ==
    IF payload = PayloadFull THEN FullResponse
    ELSE IF payload = PayloadNoAuthn
    THEN [FullResponse EXCEPT !.authn_statement = <<>>]
    ELSE IF payload = PayloadNoSubject
    THEN [FullResponse EXCEPT !.subject = None]
    ELSE ParseError

\* the name of an attribute in the internal attribute mapping
InternalName(name) ==
    IF name = "urn:oid:0.9.2342.19200300.100.1.3" THEN "mail" ELSE name

\* self.converter.to_internal(self.attribute_profile, ava)
to_internal(ava) ==
    [i \in 1..Len(ava) |->
        [name |-> InternalName(ava[i].name), values |-> ava[i].values]]

\* no InternalResponse; exc is the exception raised instead of one
NoInternal == [set |-> FALSE, exc |-> "", user_id |-> <<>>, attributes |-> <<>>,
               auth_class_ref |-> "", timestamp |-> "", issuer |-> <<>>]

\* an InternalResponse handed on with whatever the response holds
_translate_response_partial(response) ==
    LET stmt == response.authn_statement IN
    [set |-> TRUE, exc |-> "",
     user_id |-> response.subject,
     attributes |-> to_internal(response.ava),
     auth_class_ref |-> IF stmt = <<>> THEN "" ELSE stmt[1].class_ref,
     timestamp |-> IF stmt = <<>> THEN "" ELSE stmt[1].authn_instant,
     issuer |-> response.issuer]

\* _translate_response(response, state): the InternalResponse; NoInternal
\* with IndexError when response.authn_info() is empty (line 238), with
\* AttributeError when response.get_subject() is None (line 246)
_translate_response(response) ==
    IF response.authn_statement = <<>>
    THEN [NoInternal EXCEPT !.exc = "IndexError"]
    ELSE IF response.subject = None
    THEN [NoInternal EXCEPT !.exc = "AttributeError"]
    ELSE [set |-> TRUE, exc |-> "",
          user_id |-> response.subject,
          attributes |-> to_internal(response.ava),
          auth_class_ref |-> response.authn_statement[1].class_ref,
          timestamp |-> response.authn_statement[1].authn_instant,
          issuer |-> response.issuer]

\* what self.auth_callback_func(context, internal_resp) returns
CallbackResult ==
    [kind |-> "callback", exc |-> "", msg |-> "", loc |-> NoLoc, body |-> <<>>]

\* ---------------------------------------------------- get_metadata_desc
\* What entity[entity_id] holds for each of the three descriptive sections.
\* organization: no such key; a mapping with a name that has text and
\* lang; a name without "lang"; a value that is not a mapping
OrgShapes == {"absent", "full", "name_without_lang", "not_a_mapping"}

\* contact_person: no such key; a list of one complete person; one person
\* whose given_name has no "text"; a complete person followed by one whose
\* given_name has no "text"; a person whose given_name is a str
ContactShapes ==
    {"absent", "full", "name_without_text", "second_without_text",
     "name_not_a_mapping"}

\* idpsso_descriptor: no such key; one descriptor with a UIInfo extension;
\* a descriptor without "extensions"; a descriptor whose "extensions" is
\* None
UiShapes == {"absent", "full", "no_extensions", "extensions_none"}

\* no exception
NoExc == ""

\* lines 313-325 on an organization value: the exception the reads raise
OrganizationRaises(shape) ==
    CASE shape = "absent" -> "KeyError"
      [] shape = "name_without_lang" -> "KeyError"
      [] shape = "not_a_mapping" -> "AttributeError"
      [] OTHER -> NoExc

\* lines 331-344 on a contact_person value: the exception the reads raise
\* and the persons added to the description before it
ContactRaises(shape) ==
    CASE shape = "absent" -> "KeyError"
      [] shape = "name_without_text" -> "KeyError"
      [] shape = "second_without_text" -> "KeyError"
      [] shape = "name_not_a_mapping" -> "TypeError"
      [] OTHER -> NoExc

ContactAdded(shape) ==
    IF shape \in {"full", "second_without_text"} THEN 1 ELSE 0

\* lines 350-366 on an idpsso_descriptor value: the exception the reads
\* raise
UiRaises(shape) ==
    CASE shape = "absent" -> "KeyError"
      [] shape = "no_extensions" -> "KeyError"
      [] shape = "extensions_none" -> "TypeError"
      [] OTHER -> NoExc

\* "except:" of line 326
OrganizationCaught(exc) == TRUE

\* "except KeyError:" of lines 345 and 367
KeyErrorCaught(exc) == exc = "KeyError"

\* one entity of a metadata source
Entity(entity_id, organization, contact_person, idpsso_descriptor) ==
    [entity_id |-> entity_id, organization |-> organization,
     contact_person |-> contact_person,
     idpsso_descriptor |-> idpsso_descriptor]

\* a metadata source: one with an entity_descr holds that entity, one
\* without holds the entities of its entities_descr
MetadataFile(single, entities) == [single |-> single, entities |-> entities]

\* lines 299-303: the entity_ids of a source, here with their entities
EntitiesOfFile(metadata_file) ==
    IF metadata_file.single
    THEN <<metadata_file.entities[1]>>
    ELSE metadata_file.entities

\* MetadataDescription(urlsafe_b64encode(entity_id.encode("utf-8"))
\* .decode("utf-8")) after the three sections were tried: the sections
\* that were set
Describe(e) ==
    [entity_id |-> Utf8Decode(urlsafe_b64encode(Utf8Encode(e.entity_id))),
     organization |-> OrganizationRaises(e.organization) = NoExc,
     contact_person |-> ContactAdded(e.contact_person),
     ui_info |-> UiRaises(e.idpsso_descriptor) = NoExc]

\* the exception that leaves the three try blocks of one entity
EntityRaises(e) ==
    LET o == OrganizationRaises(e.organization)
        c == ContactRaises(e.contact_person)
        u == UiRaises(e.idpsso_descriptor)
    IN  IF o # NoExc /\ ~OrganizationCaught(o) THEN o
        ELSE IF c # NoExc /\ ~KeyErrorCaught(c) THEN c
        ELSE IF u # NoExc /\ ~KeyErrorCaught(u) THEN u
        ELSE NoExc

NoDesc == [kind |-> "none", exc |-> NoExc, items |-> <<>>]

RECURSIVE DescribeAll(_, _, _)
\* the loops of lines 295 and 306 from source i on, with the descriptions
\* appended so far
DescribeAll(files, i, done) ==
    IF i > Len(files) THEN [kind |-> "list", exc |-> NoExc, items |-> done]
    ELSE LET es == EntitiesOfFile(files[i])
             bad == {j \in 1..Len(es) : EntityRaises(es[j]) # NoExc}
         IN  IF bad # {}
             THEN LET first == CHOOSE j \in bad : \A k \in bad : j <= k
                  IN  [kind |-> "raise", exc |-> EntityRaises(es[first]),
                       items |-> <<>>]
             ELSE DescribeAll(files, i + 1,
                              done \o [j \in 1..Len(es) |-> Describe(es[j])])

get_metadata_desc == DescribeAll(metadata, 1, <<>>)

\* the metadata of the login flows: one source that lists the IdPs, each
\* fully described
FullEntity(entity_id) == Entity(entity_id, "full", "full", "full")

MetadataOf(ids) ==
    <<MetadataFile(FALSE, [i \in 1..Len(ids) |-> FullEntity(ids[i])])>>

\* the entities a source can hold for one entity id
EntitiesFor(entity_id) ==
    {Entity(entity_id, o, c, u) :
        o \in OrgShapes, c \in ContactShapes, u \in UiShapes}

\* the metadata get_metadata_desc is run on: one source of one entity, one
\* source of two entities, two sources of one entity each
MetadataLayouts ==
    {<<MetadataFile(TRUE, <<e>>)>> : e \in EntitiesFor(<<105>>)}
    \cup {<<MetadataFile(FALSE, <<e1, e2>>)>> :
              e1 \in EntitiesFor(<<105>>), e2 \in EntitiesFor(<<233>>)}
    \cup {<<MetadataFile(TRUE, <<e1>>), MetadataFile(TRUE, <<e2>>)>> :
              e1 \in EntitiesFor(<<105>>), e2 \in EntitiesFor(<<233>>)}

RECURSIVE Flatten(_)
\* all entities of the sources, in order
Flatten(files) ==
    IF files = <<>> THEN <<>>
    ELSE EntitiesOfFile(Head(files)) \o Flatten(Tail(files))

\* self.sp.metadata.identity_providers(): the entities with an
\* idpsso_descriptor
RECURSIVE IdentityProviders(_)
IdentityProviders(es) ==
    IF es = <<>> THEN <<>>
    ELSE (IF Head(es).idpsso_descriptor # "absent"
          THEN <<Head(es).entity_id>> ELSE <<>>)
         \o IdentityProviders(Tail(es))

\* --------------------------------------------------- register_endpoints
\* one entry of the url map: the pattern, the handler and the arguments
\* bound to it (a binding for authn_response, none otherwise)
UrlMapEntry(pattern, handler, args) ==
    [pattern |-> pattern, handler |-> handler, args |-> args]

NoUrlMap == [kind |-> "none", entries |-> <<>>]

\* 'if "publish_metadata" in self.config'
PublishesMetadata(cfg) == cfg # <<>>

\* "if self.discosrv"
UsesDiscovery_always(srv) == TRUE

UsesDiscovery(srv) == srv # NoDiscoSrv

register_endpoints ==
    LET acs_entries ==
            [i \in 1..Len(acs) |->
                UrlMapEntry(PathPattern(acs[i][1]), "authn_response",
                            <<acs[i][2]>>)]
        metadata_entries ==
            IF PublishesMetadata(publish_metadata)
            THEN <<UrlMapEntry(PathPattern(publish_metadata[1]), "_metadata",
                               <<>>)>>
            ELSE <<>>
        disco_entries ==
            IF UsesDiscovery(discosrv)
            THEN [i \in 1..Len(discovery_response) |->
                     UrlMapEntry(PathPattern(discovery_response[i][1]),
                                 "disco_response", <<>>)]
            ELSE <<>>
    IN  [kind |-> "list",
         entries |-> acs_entries \o metadata_entries \o disco_entries]

\* --------------------------------------------------- the handler calls
\* InternalRequest(user_id_hash_type, requestor)
InternalRequest(user_id_hash_type, requestor) == <<user_id_hash_type, requestor>>

\* no InternalRequest was passed on
NoInternalRequest == <<Absent, Absent>>

\* the internal_req a frontend calls start_auth with: a hash type and a
\* requestor
FrontendRequest == InternalRequest(<<112>>, <<114>>)

\* the record of one handler call: its inputs (hint, entityID, payload,
\* echo: Absent when the key is missing), the value stored under NAME when
\* it began (pre), the entity and the internal request authn_request was
\* called with, the relay_state it passed on and what it returned or raised (None, NoResult
\* when it was not called), whether disco_query was called, how far
\* authn_response got (the parse tried, the parse done, the relay state
\* compared, the token removed, a token still stored when the translation
\* began, the response translated, the callback called), what the callback was given, and the outcome of the handler
NoCall ==
    [op |-> "none", hint |-> Absent, entityID |-> Absent, payload |-> Absent,
     echo |-> Absent, pre |-> None, authn_target |-> None,
     internal_req |-> NoInternalRequest, relay |-> None,
     authn_result |-> NoResult, disco |-> FALSE, parse_tried |-> FALSE,
     parsed |-> FALSE, validated |-> FALSE, removed |-> FALSE,
     pending_at_translate |-> FALSE, translated |-> FALSE,
     callback |-> FALSE, callback_arg |-> NoInternal, replay |-> FALSE,
     outcome |-> NoResult]

HandlerOut(st, c) == [state |-> st, call |-> c]

\* disco_query(context, internal_req)
disco_query_lastreturn ==
    SeeOther([url |-> discosrv,
              query |-> <<SP_ENTITYID,
                          discovery_response[Len(discovery_response)][1]>>])

disco_query ==
    SeeOther([url |-> discosrv,
              query |-> <<SP_ENTITYID, discovery_response[1][1]>>])

\* a call record for a handler that went into authn_request
ViaAuthnRequest(c, st, entity_id, internal_req, ext) ==
    LET r == authn_request(st, entity_id, ext)
    IN  HandlerOut(r.state,
                   [c EXCEPT !.authn_target = entity_id,
                             !.internal_req = internal_req, !.relay = r.relay,
                             !.authn_result = r.result,
                             !.outcome = r.result])

\* "if len(idps) == 1": the metadata lists exactly one IdP
BypassDiscovery_several(ids) == Len(ids) > 1

BypassDiscovery(ids) == Len(ids) = 1

\* start_auth(context, internal_req); hint is
\* context.internal_data["mirror.target_entity_id"], Absent without that key
start_auth(st, hint, ext) ==
    LET c == [NoCall EXCEPT !.op = "start_auth", !.hint = hint,
                            !.pre = StateGet(st, NAME)]
    IN  IF BypassDiscovery(idps)
        THEN ViaAuthnRequest(c, st, idps[1], FrontendRequest, ext)
        ELSE IF hint = Absent
             THEN HandlerOut(st, [c EXCEPT !.disco = TRUE, !.outcome = disco_query])
        ELSE LET raw == urlsafe_b64decode(hint) IN
             IF raw = DecodeError
             THEN HandlerOut(st, [c EXCEPT !.outcome = Raise("binascii.Error", "")])
             ELSE LET entity_id == Utf8Decode(raw) IN
                  IF entity_id = DecodeError
                  THEN HandlerOut(st, [c EXCEPT !.outcome =
                                                    Raise("UnicodeDecodeError", "")])
                  ELSE LET r == ViaAuthnRequest(c, st, entity_id,
                                                FrontendRequest, ext) IN
                       IF IsRaise(r.call.outcome, "KeyError")
                       THEN HandlerOut(r.state, [r.call EXCEPT !.disco = TRUE,
                                                               !.outcome = disco_query])
                       ELSE r

\* disco_response(context); entityID is context.request["entityID"], Absent
\* without that key
NoIdpChosen_unknown(entityID) == entityID \notin Range(idps)

\* info["entityID"] raises KeyError
NoIdpChosen(entityID) == entityID = Absent

disco_response(st, entityID, ext) ==
    LET c == [NoCall EXCEPT !.op = "disco_response", !.entityID = entityID,
                            !.pre = StateGet(st, NAME)]
    IN  IF NoIdpChosen(entityID)
        THEN HandlerOut(st, [c EXCEPT !.outcome = AuthError("No IDP chosen")])
        ELSE ViaAuthnRequest(c, st, entityID, InternalRequest(None, None), ext)

\* the check "state.get(self.name) != _authn_response['RelayState']" passes
RelayStateMatches_caseless(stored, echoed) == Lower(stored) = Lower(echoed)

RelayStateMatches_always(stored, echoed) == TRUE

RelayStateMatches(stored, echoed) == stored = echoed

\* context.state.remove(self.name)
ConsumeToken_keep(st) == st

ConsumeToken(st) == StateRemove(st, NAME)

\* lines 204-205: of the session state before (st) and after (st2) the
\* remove, the one that _translate_response and the callback run on
StateAtTranslate_before(st, st2) == st

StateAtTranslate(st, st2) == st2

\* a value is false in a condition: None and the empty string
Falsy(v) == v = None \/ v = EmptyStr

\* authn_response(context, binding); payload and echo are
\* context.request["SAMLResponse"] and context.request["RelayState"], Absent
\* without that key
authn_response(st, payload, echo, binding) ==
    LET c == [NoCall EXCEPT !.op = "authn_response", !.payload = payload,
                            !.echo = echo, !.pre = StateGet(st, NAME)]
    IN  IF payload = Absent
        THEN HandlerOut(st, [c EXCEPT !.outcome = Raise("KeyError", "SAMLResponse")])
        ELSE IF Falsy(payload)
        THEN HandlerOut(st, [c EXCEPT !.outcome = AuthError("Missing Response")])
        ELSE LET _response == parse_authn_request_response(payload, binding)
                 c0 == [c EXCEPT !.parse_tried = TRUE]
                 c1 == [c0 EXCEPT !.parsed = TRUE]
             IN
             IF ~_response.ok
             THEN HandlerOut(st, [c0 EXCEPT !.outcome =
                                     AuthError("Failed to parse authn request")])
             ELSE IF echo = Absent
             THEN HandlerOut(st, [c1 EXCEPT !.outcome = Raise("KeyError", "RelayState")])
             ELSE IF ~RelayStateMatches(StateGet(st, NAME), echo)
             THEN HandlerOut(st, [c1 EXCEPT !.validated = TRUE, !.outcome =
                                     AuthError("State did not match relay state")])
             ELSE LET st2 == ConsumeToken(st)
                      seen == StateAtTranslate(st, st2)
                      c2 == [c1 EXCEPT !.validated = TRUE, !.removed = TRUE,
                                       !.pending_at_translate =
                                           NAME \in DOMAIN seen]
                      internal_resp == _translate_response(_response)
                  IN  IF ~internal_resp.set
                      THEN HandlerOut(seen, [c2 EXCEPT !.outcome =
                                                 Raise(internal_resp.exc, "")])
                      ELSE HandlerOut(st2, [c2 EXCEPT !.translated = TRUE,
                                                      !.callback = TRUE,
                                                      !.callback_arg = internal_resp,
                                                      !.outcome = CallbackResult])

\* --------------------------------------------------------------- inputs
\* the mirrored-entity hints a context can carry: the encoding of an entity
\* id, such an encoding cut short by one character, and the encoding of
\* bytes that are not UTF-8
EncodedHint(entity_id) == urlsafe_b64encode(Utf8Encode(entity_id))

ValidHints == {EncodedHint(e) : e \in EntityIds}

CutShort(h) == SubSeq(h, 1, Len(h) - 1)

Hints ==
    ValidHints \cup {CutShort(EncodedHint(<<105>>)), urlsafe_b64encode(<<255>>)}

\* the RelayState values a request can carry: None or any string of token
\* characters up to the token length
EchoVals == SeqsUpTo(TokenChars, 0, TokenLen) \cup {None}

\* ---------------------------------------------------------------- Init
Init ==
    /\ idps \in DistinctSeqs(IdpUniverse)
    /\ sso_services \in [Range(idps) -> SUBSET Range(bindings)]
    /\ acs \in SeqsOfLen(AcsEndpoints, 1)
    /\ discovery_response \in SeqsOfLen(DiscoEndpoints, 1)
    /\ discosrv = DISCO_SRV
    /\ state = EmptyState
    /\ issued = None
    /\ overwritten = None
    /\ cb_count = 0
    /\ call = NoCall
    /\ metadata = MetadataOf(idps)
    /\ metadata_desc = NoDesc
    /\ publish_metadata = <<>>
    /\ url_map = NoUrlMap

\* -------------------------------------------------------------- actions
\* the bookkeeping after a handler that may have gone through authn_request
AfterRequest(out) ==
    /\ state' = out.state
    /\ call' = out.call
    /\ IF out.call.relay # None
       THEN /\ issued' = out.call.relay
            /\ overwritten' = out.call.pre
            /\ cb_count' = 0
       ELSE UNCHANGED <<issued, overwritten, cb_count>>
    /\ UNCHANGED <<config, metadata_desc, url_map>>

\* what the environment can decide in an authn_request for the entity:
\* when pick_binding finds no binding for it (or there is no call at all)
\* only the NameID policy lookup is reached, rndstr and apply_binding are
\* not
ExtInputsFor(entity_id) ==
    IF pick_binding(bindings, entity_id).binding # "" THEN ExtInputs
    ELSE {x \in ExtInputs :
             /\ x.fail \in {"none", "name_id_policy"}
             /\ x.shape = "complete"
             /\ x.relay_state = CHOOSE t \in Tokens : TRUE}

\* the entity start_auth asks authn_request for, Absent when it does not
StartAuthTarget(hint) ==
    IF BypassDiscovery(idps) THEN idps[1]
    ELSE IF hint = Absent THEN Absent
    ELSE LET raw == urlsafe_b64decode(hint) IN
         IF raw = DecodeError \/ Utf8Decode(raw) = DecodeError THEN Absent
         ELSE Utf8Decode(raw)

StartAuth ==
    \E hint \in Hints \cup {Absent} :
    \E ext \in ExtInputsFor(StartAuthTarget(hint)) :
        AfterRequest(start_auth(state, hint, ext))

DiscoResponse ==
    \E entityID \in EntityIds \cup {Absent} :
    \E ext \in ExtInputsFor(entityID) :
        AfterRequest(disco_response(state, entityID, ext))

\* the RelayState values to try with a payload: line 199 reads the
\* RelayState only after the payload was parsed, any other payload is
\* tried with one request that has the key and one that lacks it
EchoesFor(payload) ==
    IF payload \in Payloads /\ parse_authn_request_response(payload, "").ok
    THEN EchoVals \cup {Absent}
    ELSE {None, Absent}

AuthnResponse ==
    \E payload \in Payloads \cup {None, Absent} :
    \E echo \in EchoesFor(payload),
       binding \in {acs[i][2] : i \in 1..Len(acs)} :
        LET out == authn_response(state, payload, echo, binding)
            onIssued == issued # None /\ echo = issued
        IN  /\ state' = out.state
            /\ call' = [out.call EXCEPT !.replay = onIssued /\ cb_count >= 1]
            /\ cb_count' = IF out.call.callback /\ onIssued /\ cb_count < 2
                           THEN cb_count + 1 ELSE cb_count
            /\ UNCHANGED <<issued, overwritten, config, metadata_desc, url_map>>

Next == StartAuth \/ DiscoResponse \/ AuthnResponse

Spec == Init /\ [][Next]_vars

\* ------------------------------------------- discovery configurations
\* start_auth under every IdP list and every non-empty list of
\* discovery-response endpoints
InitDisco ==
    /\ idps \in DistinctSeqs(IdpUniverse)
    /\ sso_services \in [Range(idps) -> SUBSET Range(bindings)]
    /\ acs \in SeqsOfLen(AcsEndpoints, 1)
    /\ discovery_response \in DistinctSeqs(DiscoUniverse) \ {<<>>}
    /\ discosrv = DISCO_SRV
    /\ state = EmptyState
    /\ issued = None
    /\ overwritten = None
    /\ cb_count = 0
    /\ call = NoCall
    /\ metadata = MetadataOf(idps)
    /\ metadata_desc = NoDesc
    /\ publish_metadata = <<>>
    /\ url_map = NoUrlMap

NextDisco == StartAuth

SpecDisco == InitDisco /\ [][NextDisco]_vars

\* ------------------------------------------------- metadata description
\* get_metadata_desc under every layout of the metadata
InitMeta ==
    /\ metadata \in MetadataLayouts
    /\ idps = IdentityProviders(Flatten(metadata))
    /\ sso_services = [e \in Range(idps) |-> Range(bindings)]
    /\ acs \in SeqsOfLen(AcsEndpoints, 1)
    /\ discovery_response \in SeqsOfLen(DiscoEndpoints, 1)
    /\ discosrv = DISCO_SRV
    /\ state = EmptyState
    /\ issued = None
    /\ overwritten = None
    /\ cb_count = 0
    /\ call = NoCall
    /\ metadata_desc = NoDesc
    /\ publish_metadata = <<>>
    /\ url_map = NoUrlMap

GetMetadataDesc ==
    /\ metadata_desc' = get_metadata_desc
    /\ UNCHANGED <<config, state, issued, overwritten, cb_count, call,
                   url_map>>

NextMeta == GetMetadataDesc

SpecMeta == InitMeta /\ [][NextMeta]_vars

\* ---------------------------------------------------------- the url map
\* register_endpoints under every combination of endpoint lists, metadata
\* path and discovery service
InitEndpoints ==
    /\ idps = <<<<105>>>>
    /\ sso_services = [e \in Range(idps) |-> Range(bindings)]
    /\ acs \in DistinctSeqs(AcsUniverse)
    /\ discovery_response \in DistinctSeqs(DiscoUniverse)
    /\ discosrv \in {NoDiscoSrv, DISCO_SRV}
    /\ state = EmptyState
    /\ issued = None
    /\ overwritten = None
    /\ cb_count = 0
    /\ call = NoCall
    /\ metadata = MetadataOf(idps)
    /\ metadata_desc = NoDesc
    /\ publish_metadata \in PublishMetadataValues
    /\ url_map = NoUrlMap

RegisterEndpoints ==
    /\ url_map' = register_endpoints
    /\ UNCHANGED <<config, state, issued, overwritten, cb_count, call,
                   metadata_desc>>

NextEndpoints == RegisterEndpoints

SpecEndpoints == InitEndpoints /\ [][NextEndpoints]_vars

\* =============================================================== claims
\* the last call went through authn_request
CalledAuthnRequest == call.op \in {"start_auth", "disco_response"} /\ call.authn_target # None

MismatchError == "State did not match relay state"

\* the session holds a value under the adapter's name
HoldsToken == NAME \in DOMAIN state

\* C1: after any completed authentication attempt - authn_request raising
\* 'Failed to construct the AuthnRequest' or 'Parameter error', or
\* authn_response raising 'Missing Response', 'Failed to parse authn
\* request' or 'State did not match relay state', or returning the callback
\* result - the session state holds no relay-state token under the
\* adapter's name.
C1_NoTokenAfterAttempt ==
    LET failedRequest ==
            /\ CalledAuthnRequest
            /\ \/ IsAuthError(call.authn_result, "Failed to construct the AuthnRequest")
               \/ IsAuthError(call.authn_result, "Parameter error")
        endedResponse ==
            /\ call.op = "authn_response"
            /\ \/ IsAuthError(call.outcome, "Missing Response")
               \/ IsAuthError(call.outcome, "Failed to parse authn request")
               \/ IsAuthError(call.outcome, MismatchError)
               \/ call.outcome.kind = "callback"
    IN  (failedRequest \/ endedResponse) => ~HoldsToken

\* C2: when the session holds an issued token T and authn_response gets a
\* payload that parses and an echoed RelayState value, the relay-state check
\* passes (the token is consumed) exactly when the echoed value equals T,
\* and any other echoed value raises 'State did not match relay state'.
C2_ExactMatch ==
    (/\ call.op = "authn_response"
     /\ call.parsed
     /\ call.pre \in Tokens
     /\ call.echo # Absent)
    => /\ call.validated
       /\ call.removed <=> (call.echo = call.pre)
       /\ call.echo # call.pre => IsAuthError(call.outcome, MismatchError)
       /\ call.echo = call.pre => ~IsAuthError(call.outcome, MismatchError)

\* an echoed token of the same letters in another case is rejected
C2_Witness ==
    /\ call.op = "authn_response"
    /\ call.parsed
    /\ call.pre \in Tokens
    /\ call.echo \in Tokens
    /\ call.echo # call.pre
    /\ Lower(call.echo) = Lower(call.pre)
    /\ IsAuthError(call.outcome, MismatchError)

\* C3: when authn_response reaches the relay-state check on a session that
\* holds no token, then for every echoed RelayState value, an absent or null
\* one included, the outcome is the relay-state-mismatch error and neither
\* token removal nor translation nor the callback happens.
C3_NoTokenIsMismatch ==
    (/\ call.op = "authn_response"
     /\ call.parsed
     /\ call.pre = None)
    => /\ IsAuthError(call.outcome, MismatchError)
       /\ ~call.removed
       /\ ~call.translated
       /\ ~call.callback

C5_SingleUse ==
    /\ cb_count <= 1
    /\ (call.op = "authn_response" /\ call.replay /\ call.parsed)
       => /\ IsAuthError(call.outcome, MismatchError)
          /\ ~call.callback

\* a consumed token is echoed again and rejected
C5_Witness ==
    /\ call.op = "authn_response"
    /\ call.replay
    /\ call.parsed
    /\ cb_count = 1
    /\ IsAuthError(call.outcome, MismatchError)

\* C6: when the metadata lists exactly one IdP, start_auth never calls
\* disco_query, whatever hint the context carries, and calls authn_request
\* with that IdP's entity id.
C6_SingleIdpBypass ==
    (call.op = "start_auth" /\ Len(idps) = 1)
    => /\ ~call.disco
       /\ call.authn_target = idps[1]

\* one IdP, and a hint that names another entity or none at all
C6_Witness ==
    /\ call.op = "start_auth"
    /\ Len(idps) = 1
    /\ call.hint # EncodedHint(idps[1])
    /\ call.authn_target = idps[1]

\* C7: decoding the encoding of an entity id E yields E, and when the IdP
\* count is not one and the context carries the encoded hint for E,
\* start_auth calls authn_request with exactly E and never reaches
\* disco_query, whatever that authn_request returns or raises.
C7_HintRoutesDirectly ==
    /\ \A e \in EntityIds : Utf8Decode(urlsafe_b64decode(EncodedHint(e))) = e
    /\ \A e \in EntityIds :
          (/\ call.op = "start_auth"
           /\ Len(idps) # 1
           /\ call.hint = EncodedHint(e))
          => /\ call.authn_target = e
             /\ ~call.disco

\* a hint fails to decode: not base64, or not UTF-8 once decoded
Undecodable(hint) ==
    \/ urlsafe_b64decode(hint) = DecodeError
    \/ Utf8Decode(urlsafe_b64decode(hint)) = DecodeError

\* C8: when the IdP count is not one, start_auth treats an absent hint and
\* a hint that fails to decode alike: it returns the result of disco_query
\* and raises nothing.
C8_BadHintFallsThrough ==
    (/\ call.op = "start_auth"
     /\ Len(idps) # 1
     /\ (call.hint = Absent \/ Undecodable(call.hint)))
    => /\ call.disco
       /\ call.outcome.kind = "SeeOther"

\* C9: when the SAMLResponse payload is absent from the request or present
\* but empty, authn_response ends in the 'Missing Response' error, before
\* the parse or the relay-state check is tried.
C9_MissingResponse ==
    (/\ call.op = "authn_response"
     /\ (call.payload = Absent \/ Falsy(call.payload)))
    => /\ IsAuthError(call.outcome, "Missing Response")
       /\ ~call.parse_tried
       /\ ~call.validated

\* C10: whatever fails in authn_request, it raises only the errors 'Failed
\* to construct the AuthnRequest' and 'Parameter error'; no other exception
\* leaves it.
C10_OnlyTwoErrors ==
    (CalledAuthnRequest /\ call.authn_result.kind = "raise")
    => \/ IsAuthError(call.authn_result, "Failed to construct the AuthnRequest")
       \/ IsAuthError(call.authn_result, "Parameter error")

\* C11: when two issues of a token interleave with their responses in one
\* session, the session holds the token issued last; a response that passes
\* the relay-state check against a stored token echoes that last token; and
\* a response that echoes the earlier token, which the later issue
\* overwrote with a different one, ends in the mismatch error with no
\* callback
C11_LastIssueWins ==
    /\ HoldsToken => state[NAME] = issued
    /\ (call.op = "authn_response" /\ call.removed /\ call.pre # None)
           => call.echo = issued
    /\ (/\ call.op = "authn_response"
        /\ call.parsed
        /\ overwritten # None
        /\ overwritten # issued
        /\ call.echo = overwritten)
           => /\ IsAuthError(call.outcome, MismatchError)
              /\ ~call.callback

\* a response echoed the overwritten token while the later one was pending
C11_Witness ==
    /\ call.op = "authn_response"
    /\ overwritten \in Tokens
    /\ issued \in Tokens
    /\ overwritten # issued
    /\ call.echo = overwritten
    /\ call.pre = issued
    /\ HoldsToken
    /\ IsAuthError(call.outcome, MismatchError)

\* the last call went through authn_request and got a response back from it
AuthnRequestSucceeded ==
    CalledAuthnRequest /\ call.authn_result.kind \in {"SeeOther", "Response"}

\* the relay state carried by the outbound message of a response of
\* authn_request: in the Location of a redirect, in the body otherwise
OutboundRelayState(r) ==
    IF r.kind = "SeeOther" THEN r.loc.query[3] ELSE r.body[1][1].query[3]

\* C12: in every reachable state the session holds at most one pending
\* token, under the adapter's name and nowhere else; after each successful
\* authn_request the stored value is exactly the fresh token that went
\* into the outbound request as relay state, whatever was stored before
C12_OnePendingToken ==
    /\ DOMAIN state \subseteq {NAME}
    /\ HoldsToken => state[NAME] \in Tokens
    /\ AuthnRequestSucceeded
           => /\ HoldsToken
              /\ state[NAME] = call.relay
              /\ state[NAME] = OutboundRelayState(call.authn_result)

\* a successful authn_request replaced a different stored token
C12_Witness ==
    /\ AuthnRequestSucceeded
    /\ call.pre \in Tokens
    /\ call.pre # call.relay
    /\ state[NAME] = OutboundRelayState(call.authn_result)

\* the bindings the target of the last authn_request advertises SSO
\* endpoints for
Advertised ==
    IF call.authn_target \in DOMAIN sso_services
    THEN sso_services[call.authn_target] ELSE {}

ConstructError == "Failed to construct the AuthnRequest"

\* C13: when the target advertises SSO endpoints for both bindings,
\* authn_request negotiates redirect: a request that got as far as its
\* outbound message does not end in a POST response, and a response it
\* returns is a redirect to the redirect endpoint; a POST response is
\* returned only when redirect is not advertised and POST is; and when
\* neither is advertised the negotiation ends the call with the
\* request-construction error
C13_RedirectPreferred ==
    CalledAuthnRequest =>
        /\ ({BINDING_HTTP_REDIRECT, BINDING_HTTP_POST} \subseteq Advertised
             /\ call.relay # None)
               => /\ call.authn_result.kind # "Response"
                  /\ ~IsRaise(call.authn_result, "KeyError")
                        \/ call.authn_result.msg = "headers"
                  /\ AuthnRequestSucceeded
                        => /\ call.authn_result.kind = "SeeOther"
                           /\ call.authn_result.loc.url = BINDING_HTTP_REDIRECT
        /\ call.authn_result.kind = "Response"
               => /\ BINDING_HTTP_REDIRECT \notin Advertised
                  /\ BINDING_HTTP_POST \in Advertised
                  /\ call.authn_result.body[1][1].url = BINDING_HTTP_POST
        /\ (Advertised \cap {BINDING_HTTP_REDIRECT, BINDING_HTTP_POST} = {}
             /\ ~IsRaise(call.authn_result, "Exception"))
               => /\ IsAuthError(call.authn_result, ConstructError)
                  /\ call.relay = None

\* the target advertised both bindings and the answer was a redirect
C13_Witness ==
    /\ CalledAuthnRequest
    /\ Advertised = {BINDING_HTTP_REDIRECT, BINDING_HTTP_POST}
    /\ call.authn_result.kind = "SeeOther"
    /\ call.authn_result.loc.url = BINDING_HTTP_REDIRECT

\* C14: with more than one IdP in the metadata and no hint in the context,
\* start_auth returns a redirect to the configured discovery service whose
\* entityID is the entity id of the SP and whose return address is the
\* first configured discovery-response endpoint; authn_request is not
\* called and the session state keeps what it held
C14_DiscoveryRedirect ==
    (call.op = "start_auth" /\ Len(idps) > 1 /\ call.hint = Absent)
        => /\ call.disco
           /\ call.outcome.kind = "SeeOther"
           /\ call.outcome.loc.url = discosrv
           /\ call.outcome.loc.query = <<SP_ENTITYID, discovery_response[1][1]>>
           /\ call.authn_target = None
           /\ call.authn_result = NoResult
           /\ call.relay = None
           /\ StateGet(state, NAME) = call.pre

\* start_auth went to discovery with two return endpoints configured and a
\* token pending from an earlier request
C14_Witness ==
    /\ call.op = "start_auth"
    /\ Len(idps) > 1
    /\ call.hint = Absent
    /\ Len(discovery_response) = 2
    /\ call.pre \in Tokens
    /\ call.outcome.kind = "SeeOther"
    /\ call.outcome.loc.query[2] = discovery_response[1][1]

\* C15: disco_response on a request without an entityID parameter raises
\* 'No IDP chosen', does not call authn_request and leaves the session state
\* as it was; on a request with one it calls authn_request for exactly that
\* entity id, with an empty internal request, and returns what that call
\* returns
C15_DiscoResponse ==
    call.op = "disco_response" =>
        IF call.entityID = Absent
        THEN /\ IsAuthError(call.outcome, "No IDP chosen")
             /\ call.authn_target = None
             /\ call.internal_req = NoInternalRequest
             /\ call.authn_result = NoResult
             /\ call.relay = None
             /\ StateGet(state, NAME) = call.pre
        ELSE /\ call.authn_target = call.entityID
             /\ call.internal_req = InternalRequest(None, None)
             /\ call.outcome = call.authn_result
             /\ call.authn_result # NoResult

\* the discovery service named the second IdP of two and the request to it
\* went out
C15_Witness ==
    /\ call.op = "disco_response"
    /\ Len(idps) = 2
    /\ call.entityID = idps[2]
    /\ call.authn_target = idps[2]
    /\ call.authn_result.kind = "SeeOther"
    /\ call.authn_result.loc.query[1] = idps[2]

\* a section value the code can describe
WellFormed(shape) == shape = "full"

\* C16: get_metadata_desc does not raise and returns one description per
\* entity of every metadata source, in order and named by the encoded
\* entity id, whichever of the organization, contact-person and UI-info
\* sections are absent or malformed; a description holds exactly the
\* sections that are well formed, any other is left out
C16_DescribesEveryEntity ==
    metadata_desc.kind # "none" =>
        LET es == Flatten(metadata) IN
        /\ metadata_desc.kind = "list"
        /\ Len(metadata_desc.items) = Len(es)
        /\ \A i \in 1..Len(es) :
              /\ metadata_desc.items[i].entity_id
                    = Utf8Decode(urlsafe_b64encode(Utf8Encode(es[i].entity_id)))
              /\ metadata_desc.items[i].organization
                    = WellFormed(es[i].organization)
              /\ metadata_desc.items[i].contact_person
                    = (IF WellFormed(es[i].contact_person) THEN 1 ELSE 0)
              /\ metadata_desc.items[i].ui_info
                    = WellFormed(es[i].idpsso_descriptor)

\* the positions of the url map that hold the given entry
EntriesFor(entry) ==
    {i \in 1..Len(url_map.entries) : url_map.entries[i] = entry}

\* the positions of the url map that lead to the given handler
EntriesTo(handler) ==
    {i \in 1..Len(url_map.entries) : url_map.entries[i].handler = handler}

\* C17: register_endpoints returns exactly one entry per
\* assertion-consumer endpoint, leading to authn_response with the binding
\* of that endpoint; one entry leading to _metadata if and only if a
\* metadata-publishing path is configured; one entry per
\* discovery-response endpoint, leading to disco_response, if and only if
\* a discovery service is configured; and no other entry
C17_UrlMap ==
    url_map.kind = "list" =>
        LET nMeta == IF publish_metadata # <<>> THEN 1 ELSE 0
            nDisco == IF discosrv # NoDiscoSrv
                      THEN Len(discovery_response) ELSE 0
        IN  /\ Len(url_map.entries) = Len(acs) + nMeta + nDisco
            /\ Cardinality(EntriesTo("authn_response")) = Len(acs)
            /\ \A k \in 1..Len(acs) :
                  Cardinality(EntriesFor(
                      UrlMapEntry(PathPattern(acs[k][1]), "authn_response",
                                  <<acs[k][2]>>))) = 1
            /\ Cardinality(EntriesTo("_metadata")) = nMeta
            /\ nMeta = 1 =>
                  EntriesFor(UrlMapEntry(PathPattern(publish_metadata[1]),
                                         "_metadata", <<>>)) # {}
            /\ Cardinality(EntriesTo("disco_response")) = nDisco
            /\ nDisco > 0 =>
                  \A k \in 1..Len(discovery_response) :
                      Cardinality(EntriesFor(
                          UrlMapEntry(PathPattern(discovery_response[k][1]),
                                      "disco_response", <<>>))) = 1

\* the url map of a configuration with two assertion-consumer endpoints, a
\* metadata path, a discovery service and two discovery-response endpoints
C17_Witness ==
    /\ url_map.kind = "list"
    /\ Len(acs) = 2
    /\ publish_metadata # <<>>
    /\ discosrv = DISCO_SRV
    /\ Len(discovery_response) = 2
    /\ Len(url_map.entries) = 5
    /\ url_map.entries[3].handler = "_metadata"

\* C18: in authn_response the pending token is removed before the
\* response is translated and before the callback runs: no token is stored
\* when the translation begins, none when the callback has been called,
\* and when the translation fails after the relay-state check the token is
\* gone all the same and the callback is not called
C18_RemovedBeforeCallback ==
    call.op = "authn_response" =>
        /\ call.callback
              => /\ call.removed
                 /\ call.translated
                 /\ ~call.pending_at_translate
                 /\ ~HoldsToken
        /\ (call.removed /\ ~call.translated)
              => /\ ~call.pending_at_translate
                 /\ ~HoldsToken
                 /\ ~call.callback
                 /\ call.outcome.kind = "raise"

\* the translation failed on a response that echoed the pending token
C18_Witness ==
    /\ call.op = "authn_response"
    /\ call.pre \in Tokens
    /\ call.echo = call.pre
    /\ call.removed
    /\ ~call.translated
    /\ ~call.callback
    /\ ~HoldsToken

\* the response the protocol layer made of the payload of the last call
ParsedResponse == parse_authn_request_response(call.payload, BINDING_HTTP_POST)

\* every part of an internal response is there: the user id, the attribute
\* mapping and the three parts of the authentication information
FullyPopulated(r) ==
    /\ r.set
    /\ r.user_id # None /\ r.user_id # <<>>
    /\ Len(r.attributes) > 0
    /\ \A i \in 1..Len(r.attributes) : r.attributes[i].name = "mail"
    /\ r.auth_class_ref # ""
    /\ r.timestamp # ""
    /\ r.issuer # None /\ r.issuer # <<>>

C20_FailureKeepsState ==
    (CalledAuthnRequest /\ IsAuthError(call.authn_result, ConstructError))
        => /\ StateGet(state, NAME) = call.pre
           /\ HoldsToken <=> call.pre # None
           /\ call.relay = None
           /\ HoldsToken => state[NAME] = issued

\* the construction failed while the token of an earlier request was
\* pending
C20_Witness ==
    /\ CalledAuthnRequest
    /\ IsAuthError(call.authn_result, ConstructError)
    /\ call.pre \in Tokens
    /\ HoldsToken
    /\ state[NAME] = call.pre

====
